---- MODULE Spec2Model ----
(***************************************************************************)
(* LetsMarkdown: projects, memberships, the document tree, the version     *)
(* log and the publish function, modelled from the Supabase schema (tables,*)
(* triggers, row-level-security policies), the zustand stores and the      *)
(* publish edge function.                                                  *)
(*                                                                         *)
(* Persisted state is what the database and the object store hold.  Local  *)
(* state is the zustand store of ONE browser, the one `session` is logged  *)
(* into; requests of other users go to the same persistence layer from     *)
(* browsers whose stores are not tracked (session = 0: no tracked browser).*)
(***************************************************************************)
EXTENDS Integers, Sequences, FiniteSets, TLC

\* ------------------------------------------------------------------ bounds
MaxUsers == 3
MaxProjects == 2
MaxDocs == 3       \* documents ever created in one run
MaxSort == 0       \* newSortOrder arguments of moveDocument: 0..MaxSort
MaxTreeSort == 1   \* sort_order of the lists given to buildDocumentTree: 0..MaxTreeSort
MaxRuns == 2       \* invocations of the publish function
MaxClock == 2      \* Date.now() runs over 1..MaxClock
MaxAppends == 2    \* version appends
MaxSaves == 2      \* updateDocument calls of the editor awaiting their response
MaxCreates == 2    \* createDocument calls in progress
MaxRemovals == 2   \* DELETEs on project_members in progress
MaxIndexSort == 1  \* newSortOrder of the reorderings around a publish run: 0..MaxIndexSort

Users == 1..MaxUsers
Projects == 1..MaxProjects
\* The membership runs follow the team of one project: every policy and
\* handler on project_members reads only rows of its own project_id.  The
\* document and publish runs use all Projects.
TeamProjects == {1}
NoUser == 0
NoProject == 0
DocIds == 1..MaxDocs
SortOrders == 0..MaxSort
RunIds == 1..MaxRuns
CreateIds == 1..MaxCreates
RemovalIds == 1..MaxRemovals
AppendIds == 1..MaxAppends
\* SQL NULL / JavaScript null or undefined of an id-valued field
NULL == 0

\* ------------------------------------------------------------------ roles
\* project_members.role CHECK (role IN ('owner','editor','viewer')); "none"
\* stands for "no row for (project_id, user_id)" (UNIQUE(project_id, user_id)).
Roles == {"owner", "editor", "viewer"}
NoRole == "none"

VARIABLES
    projects,        \* ids of the rows of table projects
    members,         \* table project_members: [Projects -> [Users -> Roles \cup {NoRole}]]
    session,         \* user logged into the tracked browser (NoUser: none)
    projList,        \* projectStore.projects: [Projects -> userRole or NoRole (not listed)]
    currentProject,  \* projectStore.currentProject: [id, userRole, members]
    documents,       \* table documents: [existing ids -> row]
    nextDocId,       \* the next fresh documents.id (uuid_generate_v4 never repeats)
    openProject,     \* projectId route parameter of the tracked browser's ProjectPage
    localDocs,       \* documentStore.documents: sequence of rows
    documentTree,    \* documentStore.documentTree
    currentDocument, \* documentStore.currentDocument: a row, or NoDocument
    runs,            \* invocations of the publish function: [RunIds -> run]
    storage,         \* bucket published-sites: [storage path -> bundle]
    publishes,       \* table publishes: sequence of rows, in insertion order
    clock,           \* Date.now() on the function's host
    versions,        \* table document_versions: sequence of rows
    appends,         \* version appends in progress: [AppendIds -> append]
    editor,          \* the DocumentEditor instance of the tracked browser
    saves,           \* updateDocument calls of the editor awaiting their response
    creates,         \* createDocument calls between their two requests
    removals,        \* DELETEs on project_members between snapshot and commit
    lastResult       \* what the last handler returned to its caller

vars == <<projects, members, session, projList, currentProject,
          documents, nextDocId, openProject, localDocs, documentTree,
          currentDocument, runs, storage, publishes, clock, versions, appends,
          editor, saves, creates, removals, lastResult>>

memberSide == <<projects, members, projList, currentProject>>
docTables == <<documents, nextDocId>>
documentStore == <<openProject, localDocs, documentTree, currentDocument>>
docSide == <<docTables, documentStore>>
publishSide == <<runs, storage, publishes, clock>>
versionSide == <<versions, appends>>
serverSide == <<publishSide, versionSide>>
editorSide == <<editor, saves>>
requestSide == <<creates, removals>>
asyncSide == <<editorSide, requestSide>>

NoMembers == [u \in Users |-> NoRole]
NullProject == [id |-> NoProject, userRole |-> NoRole, members |-> NoMembers]

\* ------------------------------------------------- access control (SQL)
\* has_project_access(p_project_id, p_user_id, p_min_role), by cases as the
\* plpgsql body: no row -> FALSE; 'viewer' -> TRUE; 'editor' -> role IN
\* ('owner','editor'); 'owner' -> role = 'owner'; any other text -> FALSE.
has_project_access_editorOnly(mem, p, u, minRole) ==
    LET v_role == IF p \in Projects /\ u \in Users THEN mem[p][u] ELSE NoRole
    IN  IF v_role = NoRole THEN FALSE
        ELSE IF minRole = "viewer" THEN TRUE
        ELSE IF minRole = "editor" THEN v_role = "editor"
        ELSE IF minRole = "owner" THEN v_role = "owner"
        ELSE FALSE

has_project_access(mem, p, u, minRole) ==
    LET v_role == IF p \in Projects /\ u \in Users THEN mem[p][u] ELSE NoRole
    IN  IF v_role = NoRole THEN FALSE
        ELSE IF minRole = "viewer" THEN TRUE
        ELSE IF minRole = "editor" THEN v_role \in {"owner", "editor"}
        ELSE IF minRole = "owner" THEN v_role = "owner"
        ELSE FALSE

\* get_user_project_role: the role, or NULL (NoRole) when there is no row.
get_user_project_role(mem, p, u) ==
    IF p \in Projects /\ u \in Users THEN mem[p][u] ELSE NoRole


\* ------------------------------------------- row-level-security policies
\* "Members can view project members": USING has_project_access(.., 'viewer').
MembersSelectUsing(mem, actor, p) == has_project_access(mem, p, actor, "viewer")

\* "Owners can add members": WITH CHECK has_project_access(.., 'owner').
MembersInsertCheck_editorToo(mem, actor, p) == has_project_access(mem, p, actor, "editor")

MembersInsertCheck(mem, actor, p) == has_project_access(mem, p, actor, "owner")

\* "Owners can update member roles": USING (owner access AND role != 'owner').
\* The policy has no WITH CHECK, so PostgreSQL applies the USING expression
\* to the new row as well.
MembersUpdateUsing_anyRow(mem, actor, p, rowRole) ==
    has_project_access(mem, p, actor, "owner")

MembersUpdateUsing(mem, actor, p, rowRole) ==
    has_project_access(mem, p, actor, "owner") /\ rowRole # "owner"

\* "Owners can remove members" OR "Members can leave projects" (permissive
\* policies of one command are OR-ed).
MembersDeleteUsing_selfToo(mem, actor, p, rowUser, rowRole) ==
    \/ has_project_access(mem, p, actor, "owner")
    \/ (rowUser = actor /\ rowRole # "owner")

MembersDeleteUsing(mem, actor, p, rowUser, rowRole) ==
    \/ (has_project_access(mem, p, actor, "owner") /\ rowUser # actor)
    \/ (rowUser = actor /\ rowRole # "owner")

\* "Owners can delete projects".
ProjectsDeleteUsing(mem, actor, p) == has_project_access(mem, p, actor, "owner")

\* ------------------------------------------------------ projectStore reads
\* fetchProjects: the memberships of the user joined with their projects.
FetchedProjects(mem, u) == [p \in Projects |-> mem[p][u]]

\* fetchProject: project row (visible to members only), the user's role and
\* the member list, as the SELECT policies let the user see them.
FetchedProject(mem, u, p) ==
    [id |-> p, userRole |-> mem[p][u],
     members |-> IF MembersSelectUsing(mem, u, p) THEN mem[p] ELSE NoMembers]

Result(op, ok, note) == [op |-> op, ok |-> ok, note |-> note]


\* --------------------------------------------- project and member handlers
\* Every handler is one request of `actor`'s browser.  The database part is
\* the same for every browser; the zustand part changes the tracked store
\* only when the actor is the session user.

\* createProject: INSERT INTO projects (created_by = user.id); the trigger
\* on_project_created -> handle_new_project adds the creator as 'owner';
\* then fetchProjects refreshes the list.
createProject(actor, p) ==
    /\ p \notin projects
    /\ projects' = projects \cup {p}
    /\ members' = [members EXCEPT ![p] = [NoMembers EXCEPT ![actor] = "owner"]]
    /\ projList' = IF actor = session THEN FetchedProjects(members', actor) ELSE projList
    /\ lastResult' = Result("createProject", TRUE, "created")
    /\ UNCHANGED <<session, currentProject, docSide, serverSide, asyncSide>>

\* addMember: profile lookup by email (target is a known user), INSERT INTO
\* project_members; error 23505 when (project, user) exists, an RLS error
\* when the WITH CHECK fails; on success fetchProject(projectId).
addMember(actor, p, target, role) ==
    LET dup == p \in projects /\ members[p][target] # NoRole
        ok == p \in projects /\ MembersInsertCheck(members, actor, p) /\ ~dup
    IN  /\ members' = IF ok THEN [members EXCEPT ![p][target] = role] ELSE members
        /\ currentProject' =
              IF ok /\ actor = session /\ MembersSelectUsing(members', actor, p)
              THEN FetchedProject(members', actor, p) ELSE currentProject
        /\ lastResult' = Result("addMember", ok,
              IF ok THEN role ELSE IF ~has_project_access(members, p, actor, "owner")
                                   THEN "denied" ELSE "duplicate")
        /\ UNCHANGED <<projects, session, projList, docSide, serverSide, asyncSide>>

\* The local part of updateMemberRole: map over currentProject.members.
LocalSetRole(cp, p, target, role) ==
    IF cp.id = p /\ cp.id # NoProject /\ cp.members[target] # NoRole
    THEN [cp EXCEPT !.members[target] = role] ELSE cp

\* updateMemberRole: UPDATE project_members SET role WHERE id = memberId.
\* A row the USING expression filters out is silently not updated (no
\* error); a new row failing the implicit WITH CHECK raises an error.  The
\* member row is identified by (p, target).
updateMemberRole(actor, p, target, role) ==
    LET exists == p \in projects /\ members[p][target] # NoRole
        visible == exists /\ MembersSelectUsing(members, actor, p)
                          /\ MembersUpdateUsing(members, actor, p, members[p][target])
        checked == visible /\ MembersUpdateUsing(members, actor, p, role)
        error == visible /\ ~checked
    IN  /\ members' = IF checked THEN [members EXCEPT ![p][target] = role] ELSE members
        /\ currentProject' = IF ~error /\ actor = session
                             THEN LocalSetRole(currentProject, p, target, role)
                             ELSE currentProject
        /\ lastResult' = Result("updateMemberRole", ~error,
              IF exists /\ members[p][target] = "owner" THEN "target_owner"
              ELSE IF checked THEN "updated" ELSE IF error THEN "rls_error" ELSE "no_row")
        /\ UNCHANGED <<projects, session, projList, docSide, serverSide, asyncSide>>

\* The local part of removeMember: filter currentProject.members.
LocalDropMember(cp, p, target) ==
    IF cp.id = p /\ cp.id # NoProject
    THEN [cp EXCEPT !.members[target] = NoRole] ELSE cp

\* removeMember: DELETE FROM project_members WHERE id = memberId.
removeMember(actor, p, target) ==
    LET exists == p \in projects /\ members[p][target] # NoRole
        deleted == exists /\ MembersSelectUsing(members, actor, p)
                          /\ MembersDeleteUsing(members, actor, p, target, members[p][target])
    IN  /\ members' = IF deleted THEN [members EXCEPT ![p][target] = NoRole] ELSE members
        /\ currentProject' = IF actor = session
                             THEN LocalDropMember(currentProject, p, target)
                             ELSE currentProject
        /\ lastResult' = Result("removeMember", TRUE,
              IF ~deleted THEN "no_row"
              ELSE IF members[p][target] = "owner" THEN "deleted_owner" ELSE "deleted")
        /\ UNCHANGED <<projects, session, projList, docSide, serverSide, asyncSide>>

\* leaveProject: DELETE FROM project_members WHERE project_id = p AND
\* user_id = user.id; then the project is dropped from the local list.
leaveProject(actor, p) ==
    LET exists == p \in projects /\ members[p][actor] # NoRole
        deleted == exists /\ MembersSelectUsing(members, actor, p)
                          /\ MembersDeleteUsing(members, actor, p, actor, members[p][actor])
    IN  /\ members' = IF deleted THEN [members EXCEPT ![p][actor] = NoRole] ELSE members
        /\ projList' = IF actor = session THEN [projList EXCEPT ![p] = NoRole] ELSE projList
        /\ currentProject' = IF actor = session /\ currentProject.id = p
                             THEN NullProject ELSE currentProject
        /\ lastResult' = Result("leaveProject", TRUE,
              IF deleted THEN "deleted" ELSE "no_row")
        /\ UNCHANGED <<projects, session, docSide, serverSide, asyncSide>>


\* fetchProject(projectId) of the tracked browser: .single() fails when the
\* project row is not visible, and the store keeps its currentProject.
fetchProject(p) ==
    /\ session # NoUser
    /\ p \in projects
    /\ MembersSelectUsing(members, session, p)
    /\ currentProject' = FetchedProject(members, session, p)
    /\ lastResult' = Result("fetchProject", TRUE, "loaded")
    /\ UNCHANGED <<projects, members, session, projList, docSide, serverSide, asyncSide>>

\* ---------------------------------------------------------------- documents
\* A row of table documents (created_by and the timestamps are not read by
\* any modelled decision).
DocRow(id, p, parent, folder, published, order, title, content) ==
    [id |-> id, project_id |-> p, parent_id |-> parent, is_folder |-> folder,
     is_published |-> published, sort_order |-> order, title |-> title,
     content |-> content]

NoDocument == [id |-> NULL]

Max(S) == CHOOSE x \in S : \A y \in S : y <= x

\* The comparison PostgREST runs for .eq(column, value): SQL "=", which is
\* not true of any row when the value is NULL (.is() is the NULL test).
SqlEq(a, b) == a # NULL /\ b # NULL /\ a = b

\* "Members can view documents" / "Editors can create documents" /
\* "Editors can update documents" / "Editors can delete documents".
DocsSelectUsing(mem, actor, p) == has_project_access(mem, p, actor, "viewer")
DocsInsertCheck(mem, actor, p) == has_project_access(mem, p, actor, "editor")
DocsUpdateUsing(mem, actor, p) == has_project_access(mem, p, actor, "editor")
DocsDeleteUsing(mem, actor, p) == has_project_access(mem, p, actor, "editor")

\* parent_id UUID REFERENCES documents(id): the referenced row must exist,
\* in whatever project (foreign keys are verified without row security).
ParentFkOk(docs, parent) == parent = NULL \/ parent \in DOMAIN docs

\* parent_id ... ON DELETE CASCADE: the rows removed with the rows in S.
RECURSIVE CascadeClosure(_, _)
CascadeClosure(docs, S) ==
    LET T == S \cup {d \in DOMAIN docs : docs[d].parent_id \in S}
    IN  IF T = S THEN S ELSE CascadeClosure(docs, T)

Without(docs, gone) == [d \in (DOMAIN docs) \ gone |-> docs[d]]

\* createDocument's sibling query: .eq("project_id", ..).eq("parent_id",
\* docData.parent_id || null).order("sort_order", desc).limit(1), then
\* siblings?.[0]?.sort_order ?? -1.
MaxSiblingOrder(docs, mem, actor, p, parent) ==
    LET sib == {d \in DOMAIN docs :
                   /\ DocsSelectUsing(mem, actor, docs[d].project_id)
                   /\ docs[d].project_id = p
                   /\ SqlEq(docs[d].parent_id, parent)}
    IN  IF sib = {} THEN -1 ELSE Max({docs[d].sort_order : d \in sib})

\* --------------------------------------------------- buildDocumentTree
\* nodes.sort((a, b) => a.sort_order - b.sort_order): a stable sort.
InsertStable(s, x, ord) ==
    LET n == Cardinality({i \in 1..Len(s) : ord[s[i]] <= ord[x]})
        \* s is sorted, so the elements not above x are its first n
    IN  SubSeq(s, 1, n) \o <<x>> \o SubSeq(s, n + 1, Len(s))

RECURSIVE SortNodes(_, _)
SortNodes(s, ord) ==
    IF s = <<>> THEN <<>>
    ELSE InsertStable(SortNodes(SubSeq(s, 1, Len(s) - 1), ord), s[Len(s)], ord)

SeqIds(list) == {list[i].id : i \in 1..Len(list)}

\* The ids of the rows of `list` whose id is in `keep`, in list order.
RECURSIVE IdsWhere(_, _)
IdsWhere(list, keep) ==
    IF list = <<>> THEN <<>>
    ELSE LET h == list[1]
         IN  (IF h.id \in keep THEN <<h.id>> ELSE <<>>) \o IdsWhere(Tail(list), keep)

RECURSIVE ReachableFrom(_, _)
ReachableFrom(kids, S) ==
    LET T == S \cup UNION {{kids[n][i] : i \in 1..Len(kids[n])} : n \in S}
    IN  IF T = S THEN S ELSE ReachableFrom(kids, T)

\* The forest as an arena: the root ids in order and, per node id, its
\* children ids in order.  A node is attached to its parent when parent_id
\* is set and in the map, and is a root otherwise; sortNodes sorts the roots
\* and the children of every node it reaches from a root.
buildDocumentTree(list) ==
    LET ids == SeqIds(list)
        attached == {list[i].id : i \in {j \in 1..Len(list) :
                        list[j].parent_id # NULL /\ list[j].parent_id \in ids}}
        ord == [d \in ids |-> (CHOOSE i \in 1..Len(list) : list[i].id = d)]
        key == [d \in ids |-> list[ord[d]].sort_order]
        kids == [n \in ids |->
                   IdsWhere(list, {list[i].id : i \in {j \in 1..Len(list) :
                        list[j].id \in attached /\ list[j].parent_id = n}})]
        roots == IdsWhere(list, ids \ attached)
        seen == ReachableFrom(kids, {roots[i] : i \in 1..Len(roots)})
    IN  [roots |-> SortNodes(roots, key),
         children |-> [n \in ids |->
                         IF n \in seen THEN SortNodes(kids[n], key) ELSE kids[n]]]

\* useDocumentStore's initial state.
InitDocumentStore ==
    /\ openProject = NoProject
    /\ localDocs = <<>>
    /\ documentTree = buildDocumentTree(<<>>)
    /\ currentDocument = NoDocument

\* ---------------------------------------------------- documentStore handlers
\* createDocument(docData), shared by the store call and the two ProjectPage
\* handlers: read the maximum sibling sort_order, INSERT the row (RLS WITH
\* CHECK, parent_id foreign key), append it to the local list and rebuild
\* the tree.  `selectIt`: the caller then calls setCurrentDocument(doc).
CreateDocumentStep(op, actor, p, parent, folder, title, content, selectIt) ==
    LET maxOrder == MaxSiblingOrder(documents, members, actor, p, parent)
        row == DocRow(nextDocId, p, parent, folder, FALSE, maxOrder + 1, title, content)
        ok == /\ p \in projects
              /\ DocsInsertCheck(members, actor, p)
              /\ ParentFkOk(documents, parent)
        mine == ok /\ actor = session
    IN  /\ nextDocId <= MaxDocs
        /\ documents' = IF ok THEN documents @@ (nextDocId :> row) ELSE documents
        /\ nextDocId' = IF ok THEN nextDocId + 1 ELSE nextDocId
        /\ localDocs' = IF mine THEN Append(localDocs, row) ELSE localDocs
        /\ documentTree' = IF mine THEN buildDocumentTree(localDocs') ELSE documentTree
        /\ currentDocument' = IF mine /\ selectIt THEN row ELSE currentDocument
        /\ lastResult' = Result(op, ok,
              IF ~ok THEN "error" ELSE IF parent = NULL THEN "root" ELSE "child")
        /\ UNCHANGED <<openProject, session, memberSide, serverSide, asyncSide>>

\* The store function called with any docData (title and content left to
\* the column defaults).
createDocument(actor, p, parent, folder) ==
    CreateDocumentStep("createDocument", actor, p, parent, folder, "Untitled", "", FALSE)

\* moveDocument: UPDATE documents SET parent_id, sort_order WHERE id.  A row
\* the policy filters out is silently not updated; a parent_id that names no
\* row raises a foreign-key error.  Nothing else is checked.
moveDocument_treeKept(actor, id, newParentId, newSortOrder) ==
    LET exists == id \in DOMAIN documents
        visible == /\ exists
                   /\ DocsSelectUsing(members, actor, documents[id].project_id)
                   /\ DocsUpdateUsing(members, actor, documents[id].project_id)
        error == visible /\ ~ParentFkOk(documents, newParentId)
        updated == visible /\ ~error
        mine == ~error /\ actor = session
    IN  /\ documents' = IF updated
                        THEN [documents EXCEPT ![id].parent_id = newParentId,
                                               ![id].sort_order = newSortOrder]
                        ELSE documents
        /\ localDocs' = IF mine
                        THEN [i \in 1..Len(localDocs) |->
                                IF localDocs[i].id = id
                                THEN [localDocs[i] EXCEPT !.parent_id = newParentId,
                                                          !.sort_order = newSortOrder]
                                ELSE localDocs[i]]
                        ELSE localDocs
        /\ documentTree' = documentTree
        /\ lastResult' = Result("moveDocument", ~error,
              IF error THEN "error" ELSE IF ~updated THEN "no_row"
              ELSE IF newParentId \in CascadeClosure(documents, {id}) THEN "into_subtree"
              ELSE "moved")
        /\ UNCHANGED <<nextDocId, openProject, currentDocument, session, memberSide, serverSide, asyncSide>>

moveDocument(actor, id, newParentId, newSortOrder) ==
    LET exists == id \in DOMAIN documents
        visible == /\ exists
                   /\ DocsSelectUsing(members, actor, documents[id].project_id)
                   /\ DocsUpdateUsing(members, actor, documents[id].project_id)
        error == visible /\ ~ParentFkOk(documents, newParentId)
        updated == visible /\ ~error
        mine == ~error /\ actor = session
    IN  /\ documents' = IF updated
                        THEN [documents EXCEPT ![id].parent_id = newParentId,
                                               ![id].sort_order = newSortOrder]
                        ELSE documents
        /\ localDocs' = IF mine
                        THEN [i \in 1..Len(localDocs) |->
                                IF localDocs[i].id = id
                                THEN [localDocs[i] EXCEPT !.parent_id = newParentId,
                                                          !.sort_order = newSortOrder]
                                ELSE localDocs[i]]
                        ELSE localDocs
        /\ documentTree' = IF mine THEN buildDocumentTree(localDocs') ELSE documentTree
        /\ lastResult' = Result("moveDocument", ~error,
              IF error THEN "error" ELSE IF ~updated THEN "no_row"
              ELSE IF newParentId \in CascadeClosure(documents, {id}) THEN "into_subtree"
              ELSE "moved")
        /\ UNCHANGED <<nextDocId, openProject, currentDocument, session, memberSide, serverSide, asyncSide>>

\* collectIds(documentId) over the local list: the id and, recursively, the
\* rows whose parent_id is a collected id.  The recursion has no visited
\* set: it does not return when documentId is its own ancestor in the list
\* (the engine then throws RangeError inside set(), caught by the handler).
LocalKids(list, S) == {list[i].id : i \in {j \in 1..Len(list) : list[j].parent_id \in S}}

RECURSIVE LocalClosure(_, _)
LocalClosure(list, S) ==
    LET T == S \cup LocalKids(list, S)
    IN  IF T = S THEN S ELSE LocalClosure(list, T)

CollectOverflows(list, id) == id \in LocalClosure(list, LocalKids(list, {id}))
collectIds(list, id) == LocalClosure(list, {id})

\* deleteDocument: DELETE FROM documents WHERE id (cascade in the database),
\* then the local removal of the collected ids.
deleteDocument(actor, id) ==
    LET exists == id \in DOMAIN documents
        deleted == /\ exists
                   /\ DocsSelectUsing(members, actor, documents[id].project_id)
                   /\ DocsDeleteUsing(members, actor, documents[id].project_id)
        gone == CascadeClosure(documents, {id})
        thrown == actor = session /\ CollectOverflows(localDocs, id)
        mine == actor = session /\ ~thrown
        idsToRemove == collectIds(localDocs, id)
    IN  /\ documents' = IF deleted THEN Without(documents, gone) ELSE documents
        /\ localDocs' = IF mine
                        THEN SelectSeq(localDocs, LAMBDA d : d.id \notin idsToRemove)
                        ELSE localDocs
        /\ documentTree' = IF mine THEN buildDocumentTree(localDocs') ELSE documentTree
        /\ currentDocument' = IF mine /\ currentDocument.id \in idsToRemove
                              THEN NoDocument ELSE currentDocument
        /\ lastResult' = Result("deleteDocument", ~thrown,
              IF thrown THEN "overflow" ELSE IF ~deleted THEN "no_row"
              ELSE IF Cardinality(gone) > 1 THEN "deleted_subtree" ELSE "deleted")
        /\ UNCHANGED <<nextDocId, openProject, session, memberSide, serverSide, asyncSide>>

\* ------------------------------------------------------------- ProjectPage
\* The rows fetchDocuments receives: .eq("project_id", p) under the SELECT
\* policy, .order("sort_order") (rows of equal sort_order in id order).
RECURSIVE IdSeq(_)
IdSeq(S) == IF S = {} THEN <<>>
            ELSE LET m == CHOOSE x \in S : \A y \in S : x <= y
                 IN  <<m>> \o IdSeq(S \ {m})

FetchedDocuments_unordered(docs, mem, u, p) ==
    LET ids == {d \in DOMAIN docs : docs[d].project_id = p
                                     /\ DocsSelectUsing(mem, u, docs[d].project_id)}
        listed == IdSeq(ids)
    IN  [i \in 1..Len(listed) |-> docs[listed[i]]]

FetchedDocuments(docs, mem, u, p) ==
    LET ids == {d \in DOMAIN docs : docs[d].project_id = p
                                     /\ DocsSelectUsing(mem, u, docs[d].project_id)}
        sorted == SortNodes(IdSeq(ids), [d \in ids |-> docs[d].sort_order])
    IN  [i \in 1..Len(sorted) |-> docs[sorted[i]]]

\* ProjectPage mounted on /project/:projectId: its effect calls
\* fetchProject(projectId) and fetchDocuments(projectId).  fetchProject
\* throws when the project row is not visible and keeps currentProject.
openProjectPage(p) ==
    /\ session # NoUser
    /\ p \in projects
    /\ openProject' = p
    /\ currentProject' = IF MembersSelectUsing(members, session, p)
                         THEN FetchedProject(members, session, p) ELSE currentProject
    /\ localDocs' = FetchedDocuments(documents, members, session, p)
    /\ documentTree' = buildDocumentTree(localDocs')
    /\ lastResult' = Result("openProjectPage", TRUE, "loaded")
    /\ UNCHANGED <<projects, members, projList, session, docTables, currentDocument, serverSide, asyncSide>>

\* const canEdit = userRole === "owner" || userRole === "editor"; the page
\* renders its menus only with a currentProject.
canEdit == currentProject.id # NoProject /\ currentProject.userRole \in {"owner", "editor"}

\* The store's document list as a table keyed by id.
LocalTable ==
    [d \in SeqIds(localDocs) |->
        localDocs[CHOOSE i \in 1..Len(localDocs) : localDocs[i].id = d]]

\* The nodes DocumentTree renders: the roots and, below a node with
\* is_folder, its children (TreeItem: node.is_folder && hasChildren).
RenderedIds ==
    LET shown == [n \in DOMAIN documentTree.children |->
                    IF LocalTable[n].is_folder THEN documentTree.children[n] ELSE <<>>]
    IN  ReachableFrom(shown, {documentTree.roots[i] : i \in 1..Len(documentTree.roots)})

\* handleSelect(node): setCurrentDocument(node) for a rendered node.
setCurrentDocument(id) ==
    /\ session # NoUser /\ openProject # NoProject
    /\ currentProject.id # NoProject
    /\ id \in RenderedIds
    /\ currentDocument' = localDocs[CHOOSE i \in 1..Len(localDocs) : localDocs[i].id = id]
    /\ lastResult' = Result("setCurrentDocument", TRUE, "selected")
    /\ UNCHANGED <<memberSide, session, docTables, openProject, localDocs, documentTree, serverSide, asyncSide>>

\* parent_id: currentDocument?.is_folder ? currentDocument.id
\*                                       : currentDocument?.parent_id
DefaultParent(cur) ==
    IF cur.id = NULL THEN NULL
    ELSE IF cur.is_folder THEN cur.id ELSE cur.parent_id

\* handleCreateDocument: createDocument in the routed project under the
\* default parent, then setCurrentDocument(doc).
handleCreateDocument ==
    /\ session # NoUser /\ openProject # NoProject /\ canEdit
    /\ CreateDocumentStep("handleCreateDocument", session, openProject,
                          DefaultParent(currentDocument), FALSE,
                          "Untitled Document", "# New Document", TRUE)

\* handleCreateFolder: createFolder(projectId, "New Folder", default parent).
handleCreateFolder ==
    /\ session # NoUser /\ openProject # NoProject /\ canEdit
    /\ CreateDocumentStep("handleCreateFolder", session, openProject,
                          DefaultParent(currentDocument), TRUE,
                          "New Folder", "", FALSE)

\* ------------------------------------------------------------ updateDocument
\* { ...d, ...updates }
Merge(row, updates) ==
    [f \in DOMAIN row |-> IF f \in DOMAIN updates THEN updates[f] ELSE row[f]]

\* updateDocument(documentId, updates): UPDATE documents SET updates WHERE
\* id, then the same merge into the local list and currentDocument.  A row
\* the policy filters out is silently not updated.
UpdateDocumentStep(op, actor, id, updates) ==
    LET updated == /\ id \in DOMAIN documents
                   /\ DocsSelectUsing(members, actor, documents[id].project_id)
                   /\ DocsUpdateUsing(members, actor, documents[id].project_id)
        mine == actor = session
    IN  /\ documents' = IF updated
                        THEN [documents EXCEPT ![id] = Merge(@, updates)]
                        ELSE documents
        /\ localDocs' = IF mine
                        THEN [i \in 1..Len(localDocs) |->
                                IF localDocs[i].id = id
                                THEN Merge(localDocs[i], updates) ELSE localDocs[i]]
                        ELSE localDocs
        /\ documentTree' = IF mine THEN buildDocumentTree(localDocs') ELSE documentTree
        /\ currentDocument' = IF mine /\ currentDocument.id = id /\ id # NULL
                              THEN Merge(currentDocument, updates) ELSE currentDocument
        /\ lastResult' = Result(op, TRUE, IF updated THEN "updated" ELSE "no_row")
        /\ UNCHANGED <<nextDocId, openProject, session, memberSide, serverSide, requestSide>>

updateDocument(actor, id, updates) ==
    /\ UpdateDocumentStep("updateDocument", actor, id, updates)
    /\ UNCHANGED editorSide

\* togglePublished(documentId) in the tracked browser: look the document up
\* in the store's list (false when it is not there), then updateDocument
\* with the negation of the listed is_published.
togglePublished(id) ==
    LET found == {i \in 1..Len(localDocs) : localDocs[i].id = id}
        doc == localDocs[CHOOSE i \in found : \A j \in found : i <= j]
    IN  /\ session # NoUser
        /\ IF found = {}
           THEN /\ lastResult' = Result("togglePublished", FALSE, "not_found")
                /\ UNCHANGED <<memberSide, session, docSide, serverSide, asyncSide>>
           ELSE /\ UpdateDocumentStep("togglePublished", session, id,
                                      [is_published |-> ~doc.is_published])
                /\ UNCHANGED editorSide

\* ---------------------------------------------------------- DocumentEditor
\* ProjectPage renders <DocumentEditor document={currentDocument}/> without
\* a key while currentDocument is a row that is no folder: one component
\* instance lives through every change of currentDocument between two such
\* rows and is unmounted when currentDocument is null or a folder.
EditorShown(cur) == cur.id # NULL /\ ~cur.is_folder

\* The fields of the `document` prop the component's effects depend on.
EditorProps(cur) == [id |-> cur.id, content |-> cur.content, title |-> cur.title]

NoProps == [id |-> NULL, content |-> "", title |-> ""]

\* content/title: useState; debouncedContent/debouncedTitle: useDebounce;
\* timers: the pending timers of the two useDebounce hooks, oldest first
\* (both wait 1000 ms, so they fire in the order they were started);
\* lastSavedContent/lastSavedTitle: the refs; document: the prop of the last
\* commit.  typed is a history of the model, not a part of the component:
\* the last text the user typed into the editor for the document it shows.
NothingTyped == [any |-> FALSE, text |-> ""]

NoEditor ==
    [mounted |-> FALSE, document |-> NoProps, content |-> "", title |-> "",
     debouncedContent |-> "", debouncedTitle |-> "",
     lastSavedContent |-> "", lastSavedTitle |-> "", timers |-> <<>>,
     typed |-> NothingTyped]

\* useState(document.content), useDebounce's initial value, useRef(...).
MountedEditor(props) ==
    [mounted |-> TRUE, document |-> props, content |-> props.content,
     title |-> props.title, debouncedContent |-> props.content,
     debouncedTitle |-> props.title, lastSavedContent |-> props.content,
     lastSavedTitle |-> props.title, timers |-> <<>>, typed |-> NothingTyped]

\* useDebounce sees a new value: its timer is started, or started again.
Restart(timers, name) == SelectSeq(timers, LAMBDA t : t # name) \o <<name>>

\* A store update the component has not been rendered for yet.
EditorStale ==
    IF EditorShown(currentDocument)
    THEN ~editor.mounted \/ editor.document # EditorProps(currentDocument)
    ELSE editor.mounted

\* title.trim() on the titles of the model, none of which has white space.
Trim(title) == title

\* The effects of one commit with a new `document` prop, in source order.
\* "Update local state when document changes" runs (one of document.id,
\* document.content, document.title changed): it sets both states and both
\* refs from the prop.  The two auto-save effects run when document.id
\* changed; they compare the debounced values of this render, which are the
\* ones of the render before, with the refs the first effect has just set.
EditorAfterProps(ed, props, mayEdit) ==
    LET idChanged == props.id # ed.document.id
        saveContent == idChanged /\ mayEdit /\ ed.debouncedContent # props.content
        saveTitle == /\ idChanged /\ mayEdit
                     /\ ed.debouncedTitle # props.title
                     /\ Trim(ed.debouncedTitle) # ""
        afterContent == IF props.content # ed.content
                        THEN Restart(ed.timers, "content") ELSE ed.timers
    IN  [editor |->
            [ed EXCEPT !.document = props,
                       !.timers = IF props.title # ed.title
                                  THEN Restart(afterContent, "title") ELSE afterContent,
                       !.content = props.content,
                       !.title = props.title,
                       !.lastSavedContent =
                           IF saveContent THEN ed.debouncedContent ELSE props.content,
                       !.lastSavedTitle =
                           IF saveTitle THEN Trim(ed.debouncedTitle) ELSE props.title,
                       !.typed = IF idChanged THEN NothingTyped ELSE @],
         calls |->
            (IF saveContent
             THEN <<[id |-> props.id, updates |-> [content |-> ed.debouncedContent]]>>
             ELSE <<>>)
            \o (IF saveTitle
                THEN <<[id |-> props.id, updates |-> [title |-> Trim(ed.debouncedTitle)]]>>
                ELSE <<>>)]

\* React commits the component for the store's currentDocument: unmount,
\* mount, or a render of the living instance followed by its effects.  The
\* updateDocument calls of the effects are sent and await their response.
renderEditor ==
    LET props == EditorProps(currentDocument)
        next == EditorAfterProps(editor, props, canEdit)
    IN  /\ session # NoUser
        /\ EditorStale
        /\ IF ~EditorShown(currentDocument)
           THEN editor' = NoEditor /\ saves' = saves
           ELSE IF ~editor.mounted
           THEN editor' = MountedEditor(props) /\ saves' = saves
           ELSE /\ Len(saves) + Len(next.calls) <= MaxSaves
                /\ editor' = next.editor
                /\ saves' = saves \o next.calls
        /\ lastResult' = Result("renderEditor", TRUE,
              IF ~EditorShown(currentDocument) THEN "unmounted"
              ELSE IF ~editor.mounted THEN "mounted"
              ELSE IF props.id # editor.document.id THEN "switched" ELSE "refreshed")
        /\ UNCHANGED <<memberSide, session, docSide, serverSide, requestSide>>

\* handleContentChange(value): setContent(value) (the editor is read-only
\* without canEdit).
typeContent(text) ==
    /\ session # NoUser /\ ~EditorStale /\ editor.mounted /\ canEdit
    /\ text # editor.content
    /\ editor' = [editor EXCEPT !.content = text,
                                !.timers = Restart(@, "content"),
                                !.typed = [any |-> TRUE, text |-> text]]
    /\ lastResult' = Result("typeContent", TRUE, "typed")
    /\ UNCHANGED <<memberSide, session, docSide, serverSide, saves, requestSide>>

\* The title input's onChange: setTitle(e.target.value).
typeTitle(text) ==
    /\ session # NoUser /\ ~EditorStale /\ editor.mounted /\ canEdit
    /\ text # editor.title
    /\ editor' = [editor EXCEPT !.title = text, !.timers = Restart(@, "title")]
    /\ lastResult' = Result("typeTitle", TRUE, "typed")
    /\ UNCHANGED <<memberSide, session, docSide, serverSide, saves, requestSide>>

\* useDebounce(content, 1000) fires: debouncedContent takes the state's
\* value and, when that is a new value, the "Auto-save content" effect runs.
debounceContent ==
    LET save == /\ editor.content # editor.debouncedContent
                /\ canEdit
                /\ editor.content # editor.lastSavedContent
    IN  /\ session # NoUser /\ ~EditorStale /\ editor.mounted
        /\ editor.timers # <<>> /\ Head(editor.timers) = "content"
        /\ save => Len(saves) < MaxSaves
        /\ editor' = [editor EXCEPT !.debouncedContent = editor.content,
                                    !.timers = Tail(@),
                                    !.lastSavedContent =
                                        IF save THEN editor.content ELSE @]
        /\ saves' = IF save
                    THEN Append(saves, [id |-> editor.document.id,
                                        updates |-> [content |-> editor.content]])
                    ELSE saves
        /\ lastResult' = Result("debounceContent", TRUE, IF save THEN "saving" ELSE "same")
        /\ UNCHANGED <<memberSide, session, docSide, serverSide, requestSide>>

\* useDebounce(title, 1000) fires, then the "Auto-save title" effect.
debounceTitle ==
    LET save == /\ editor.title # editor.debouncedTitle
                /\ canEdit
                /\ editor.title # editor.lastSavedTitle
                /\ Trim(editor.title) # ""
    IN  /\ session # NoUser /\ ~EditorStale /\ editor.mounted
        /\ editor.timers # <<>> /\ Head(editor.timers) = "title"
        /\ save => Len(saves) < MaxSaves
        /\ editor' = [editor EXCEPT !.debouncedTitle = editor.title,
                                    !.timers = Tail(@),
                                    !.lastSavedTitle =
                                        IF save THEN Trim(editor.title) ELSE @]
        /\ saves' = IF save
                    THEN Append(saves, [id |-> editor.document.id,
                                        updates |-> [title |-> Trim(editor.title)]])
                    ELSE saves
        /\ lastResult' = Result("debounceTitle", TRUE, IF save THEN "saving" ELSE "same")
        /\ UNCHANGED <<memberSide, session, docSide, serverSide, requestSide>>

\* The response of the oldest updateDocument call of the editor arrives:
\* the UPDATE and the store's merge into documents and currentDocument.
saveCompletes ==
    /\ session # NoUser /\ ~EditorStale
    /\ saves # <<>>
    /\ UpdateDocumentStep("updateDocument", session, Head(saves).id, Head(saves).updates)
    /\ saves' = Tail(saves)
    /\ UNCHANGED editor

\* ------------------------------------------------------- publish function
\* The version token `v${Date.now()}` and the storage path
\* `${projectId}/${version}/site.zip`.
Version(t) == [v |-> t]
NoVersion == Version(0)
StoragePath(p, version) == [project |-> p, version |-> version, file |-> "site.zip"]

NoBundle == [pages |-> <<>>, index |-> NoDocument, nav |-> <<>>]
NoResponse == [status |-> 0, error |-> "", success |-> FALSE, version |-> NoVersion,
               documentCount |-> 0, publishId |-> NULL]
IdleRun == [pc |-> "idle", user |-> NoUser, projectId |-> NoProject, docs |-> <<>>,
            version |-> NoVersion, bundle |-> NoBundle, response |-> NoResponse]

\* new Response(JSON.stringify({ error }), { status })
Failure(run, status, error) ==
    [run EXCEPT !.pc = "done",
                !.response = [NoResponse EXCEPT !.status = status, !.error = error]]

\* "Users can view their projects"
ProjectsSelectUsing(mem, actor, p) == mem[p][actor] # NoRole

\* doc.title.toLowerCase().replace(/[^a-z0-9]+/g, "-").replace(/^-|-$/g, "")
\* on the titles the handlers write; any other title of the model has no
\* letter or digit and reduces to "".
Slugify(title) ==
    CASE title = "Untitled" -> "untitled"
      [] title = "Untitled Document" -> "untitled-document"
      [] title = "New Folder" -> "new-folder"
      [] OTHER -> ""

\* ... || `document-${index}` (index: 0-based position in the selection)
Slug(title, index) ==
    IF Slugify(title) = "" THEN [name |-> "document", index |-> index]
    ELSE [name |-> Slugify(title), index |-> -1]

\* The selection query: project_id = projectId, is_published = true,
\* is_folder = false, ascending sort_order, under the SELECT policy.
SelectPublished_anyDocument(docs, mem, u, p) ==
    LET all == FetchedDocuments(docs, mem, u, p)
    IN  SelectSeq(all, LAMBDA d : ~d.is_folder)

SelectPublished(docs, mem, u, p) ==
    LET all == FetchedDocuments(docs, mem, u, p)
    IN  SelectSeq(all, LAMBDA d : d.is_published /\ ~d.is_folder)

\* docsWithSlugs, navDocs, one zip entry per slug (zip.file of an existing
\* name replaces the entry) and index.html from the first document.  A page
\* is recorded as the title and markdown it was rendered from.
Page(doc) == [id |-> doc.id, title |-> doc.title, content |-> doc.content]

BuildBundle_firstWins(docs) ==
    LET slugOf == [i \in 1..Len(docs) |-> Slug(docs[i].title, i - 1)]
        slugs == {slugOf[i] : i \in 1..Len(docs)}
        first(sl) == CHOOSE i \in 1..Len(docs) :
                        slugOf[i] = sl /\ \A j \in 1..(i - 1) : slugOf[j] # sl
    IN  [pages |-> [sl \in slugs |-> Page(docs[first(sl)])],
         index |-> Page(docs[1]),
         nav   |-> [i \in 1..Len(docs) |->
                      [id |-> docs[i].id, title |-> docs[i].title, slug |-> slugOf[i]]]]

BuildBundle(docs) ==
    LET slugOf == [i \in 1..Len(docs) |-> Slug(docs[i].title, i - 1)]
        slugs == {slugOf[i] : i \in 1..Len(docs)}
        last(sl) == Max({i \in 1..Len(docs) : slugOf[i] = sl})
    IN  [pages |-> [sl \in slugs |-> Page(docs[last(sl)])],
         index |-> Page(docs[1]),
         nav   |-> [i \in 1..Len(docs) |->
                      [id |-> docs[i].id, title |-> docs[i].title, slug |-> slugOf[i]]]]

\* serve(req) up to the first database read: Authorization header, request
\* body, auth.getUser().  `token` is the user the token belongs to (NoUser:
\* not a valid token).
publishRequest(r, hasHeader, token, projectId) ==
    /\ runs[r].pc = "idle"
    /\ runs' = [runs EXCEPT ![r] =
          IF ~hasHeader THEN Failure(@, 401, "Missing authorization header")
          ELSE IF projectId = NoProject THEN Failure(@, 400, "Project ID is required")
          ELSE IF token = NoUser THEN Failure(@, 401, "Invalid user token")
          ELSE [@ EXCEPT !.pc = "member", !.user = token, !.projectId = projectId]]
    /\ UNCHANGED <<memberSide, session, docSide, storage, publishes, clock,
                   versionSide, asyncSide, lastResult>>

\* ["owner", "editor"].includes(memberData.role)
MayPublish_anyMember(role) == role # NoRole

MayPublish(role) == role \in {"owner", "editor"}

\* "Check user has access to project": the caller's project_members row,
\* read under the caller's policies.
checkMember(r, memberError) ==
    LET run == runs[r]
        role == IF run.projectId \in projects
                   /\ MembersSelectUsing(members, run.user, run.projectId)
                THEN get_user_project_role(members, run.projectId, run.user)
                ELSE NoRole
    IN  /\ run.pc = "member"
        /\ runs' = [runs EXCEPT ![r] =
              IF memberError \/ ~MayPublish(role)
              THEN Failure(@, 403, "Unauthorized: Editor or owner access required")
              ELSE [@ EXCEPT !.pc = "project"]]
        /\ UNCHANGED <<memberSide, session, docSide, storage, publishes, clock,
                       versionSide, asyncSide, lastResult>>

\* "Get project details"
getProject(r, projectError) ==
    LET run == runs[r]
        found == run.projectId \in projects
                 /\ ProjectsSelectUsing(members, run.user, run.projectId)
    IN  /\ run.pc = "project"
        /\ runs' = [runs EXCEPT ![r] =
              IF projectError \/ ~found THEN Failure(@, 404, "Project not found")
              ELSE [@ EXCEPT !.pc = "select"]]
        /\ UNCHANGED <<memberSide, session, docSide, storage, publishes, clock,
                       versionSide, asyncSide, lastResult>>

\* "Get all published documents (non-folders)", the only read of documents.
selectDocuments(r, docsError) ==
    LET run == runs[r]
        docs == SelectPublished(documents, members, run.user, run.projectId)
    IN  /\ run.pc = "select"
        /\ runs' = [runs EXCEPT ![r] =
              IF docsError THEN Failure(@, 500, "Failed to fetch documents")
              ELSE IF docs = <<>> THEN Failure(@, 400, "No published documents found")
              ELSE [@ EXCEPT !.pc = "build", !.docs = docs]]
        /\ UNCHANGED <<memberSide, session, docSide, storage, publishes, clock,
                       versionSide, asyncSide, lastResult>>

\* The rows the bundle is built from: the constant `documents` bound by the
\* selection query; the function has no second read of table documents.
BundleSource_refetched(run) ==
    SelectPublished(documents, members, run.user, run.projectId)

BundleSource(run) == run.docs

\* Slugs, pages, index.html, zip.generateAsync, then the version token from
\* Date.now().  `thrown`: an exception anywhere in between (caught by the
\* function's try/catch); firstDoc.content throws on an empty selection.
buildBundle(r, thrown) ==
    LET run == runs[r]
        docs == BundleSource(run)
    IN  /\ run.pc = "build"
        /\ runs' = [runs EXCEPT ![r] =
              IF thrown \/ docs = <<>> THEN Failure(@, 500, "error.message")
              ELSE [@ EXCEPT !.pc = "upload", !.bundle = BuildBundle(docs),
                             !.version = Version(clock)]]
        /\ UNCHANGED <<memberSide, session, docSide, storage, publishes, clock,
                       versionSide, asyncSide, lastResult>>

\* adminClient.storage.from("published-sites").upload(path, zip, {upsert: true})
uploadBundle(r, uploadError) ==
    LET run == runs[r]
        path == StoragePath(run.projectId, run.version)
    IN  /\ run.pc = "upload"
        /\ storage' = IF uploadError THEN storage ELSE (path :> run.bundle) @@ storage
        /\ runs' = [runs EXCEPT ![r] =
              IF uploadError THEN Failure(@, 500, "Failed to upload published site")
              ELSE [@ EXCEPT !.pc = "record"]]
        /\ UNCHANGED <<memberSide, session, docSide, publishes, clock,
                       versionSide, asyncSide, lastResult>>

\* "Record publish in database" with the service-role client (row security
\* bypassed; project_id must still name a projects row), then the response:
\* a publishError is logged and the 200 response is returned all the same.
recordPublish(r, publishError) ==
    LET run == runs[r]
        failed == publishError \/ run.projectId \notin projects
        row == [id |-> Len(publishes) + 1,
                project_id |-> run.projectId,
                version |-> run.version,
                storage_path |-> StoragePath(run.projectId, run.version),
                published_by |-> run.user,
                document_count |-> Len(run.docs),
                documents |-> run.bundle.nav]
    IN  /\ run.pc = "record"
        /\ publishes' = IF failed THEN publishes ELSE Append(publishes, row)
        /\ runs' = [runs EXCEPT ![r] =
              [@ EXCEPT !.pc = "done",
                        !.response = [status |-> 200, error |-> "", success |-> TRUE,
                                      version |-> run.version,
                                      documentCount |-> Len(run.docs),
                                      publishId |-> IF failed THEN NULL ELSE row.id]]]
        /\ UNCHANGED <<memberSide, session, docSide, storage, clock,
                       versionSide, asyncSide, lastResult>>

\* Time passes on the function's host.
tick ==
    /\ clock < MaxClock
    /\ clock' = clock + 1
    /\ UNCHANGED <<memberSide, session, docSide, runs, storage, publishes,
                   versionSide, asyncSide, lastResult>>

\* ------------------------------------------------------------ version log
\* A row of table document_versions (id and created_at are not read).
VersionRow(d, n, content, u) ==
    [document_id |-> d, version_number |-> n, content |-> content, created_by |-> u]

IdleAppend == [pc |-> "idle", document_id |-> NULL, user |-> NoUser, max |-> 0]

\* "Members can view document versions" / "Editors can create document
\* versions" (the latter also requires auth.uid() = created_by).
VersionsSelectUsing(docs, mem, actor, d) ==
    d \in DOMAIN docs /\ has_project_access(mem, docs[d].project_id, actor, "viewer")
VersionsInsertCheck(docs, mem, actor, row) ==
    /\ row.document_id \in DOMAIN docs
    /\ has_project_access(mem, docs[row.document_id].project_id, actor, "editor")
    /\ actor = row.created_by

\* max(existing version_numbers for this document, default 0), over the
\* rows the caller's SELECT policy shows.
MaxVersionNumber(vers, docs, mem, actor, d) ==
    LET seen == {vers[i].version_number : i \in {j \in 1..Len(vers) :
                    vers[j].document_id = d /\ VersionsSelectUsing(docs, mem, actor, d)}}
    IN  IF seen = {} THEN 0 ELSE Max(seen)

\* append(documentId, content, actor), first request: read the maximum.
appendRead(a, actor, d) ==
    /\ appends[a].pc = "idle"
    /\ appends' = [appends EXCEPT ![a] =
          [pc |-> "insert", document_id |-> d, user |-> actor,
           max |-> MaxVersionNumber(versions, documents, members, actor, d)]]
    /\ UNCHANGED <<memberSide, session, docSide, publishSide, versions, asyncSide, lastResult>>

\* append, second request: INSERT INTO document_versions with
\* version_number = 1 + max.  The table accepts any version_number: it has
\* no UNIQUE (document_id, version_number) and no trigger.
appendInsert(a) ==
    LET ap == appends[a]
        row == VersionRow(ap.document_id, ap.max + 1,
                          IF ap.document_id \in DOMAIN documents
                          THEN documents[ap.document_id].content ELSE "", ap.user)
        ok == VersionsInsertCheck(documents, members, ap.user, row)
    IN  /\ ap.pc = "insert"
        /\ versions' = IF ok THEN Append(versions, row) ELSE versions
        /\ appends' = [appends EXCEPT ![a].pc = IF ok THEN "done" ELSE "error"]
        /\ UNCHANGED <<memberSide, session, docSide, publishSide, asyncSide, lastResult>>

\* ------------------------------------------- createDocument, request by request
IdleCreate == [pc |-> "idle", user |-> NoUser, project_id |-> NoProject,
               parent_id |-> NULL, is_folder |-> FALSE, max |-> -1]

\* createDocument's first request: the sibling query, whose answer the call
\* keeps in maxOrder while other requests reach the database.
createRead(c, actor, p, parent, folder) ==
    /\ creates[c].pc = "idle"
    /\ creates' = [creates EXCEPT ![c] =
          [pc |-> "insert", user |-> actor, project_id |-> p, parent_id |-> parent,
           is_folder |-> folder,
           max |-> MaxSiblingOrder(documents, members, actor, p, parent)]]
    /\ UNCHANGED <<memberSide, session, docSide, serverSide, editorSide, removals, lastResult>>

\* createDocument's second request: the INSERT with sort_order maxOrder + 1
\* (RLS WITH CHECK, parent_id foreign key), then the local state update.
createInsert(c) ==
    LET cr == creates[c]
        row == DocRow(nextDocId, cr.project_id, cr.parent_id, cr.is_folder, FALSE,
                      cr.max + 1, "Untitled", "")
        ok == /\ cr.project_id \in projects
              /\ DocsInsertCheck(members, cr.user, cr.project_id)
              /\ ParentFkOk(documents, cr.parent_id)
        mine == ok /\ cr.user = session
    IN  /\ cr.pc = "insert"
        /\ nextDocId <= MaxDocs
        /\ documents' = IF ok THEN documents @@ (nextDocId :> row) ELSE documents
        /\ nextDocId' = IF ok THEN nextDocId + 1 ELSE nextDocId
        /\ localDocs' = IF mine THEN Append(localDocs, row) ELSE localDocs
        /\ documentTree' = IF mine THEN buildDocumentTree(localDocs') ELSE documentTree
        /\ creates' = [creates EXCEPT ![c] = IdleCreate]
        /\ lastResult' = Result("createDocument", ok,
              IF ~ok THEN "error" ELSE IF cr.parent_id = NULL THEN "root" ELSE "child")
        /\ UNCHANGED <<openProject, currentDocument, session, memberSide, serverSide,
                       editorSide, removals>>

\* ----------------------------------------- removeMember, statement in progress
IdleRemoval == [pc |-> "idle", user |-> NoUser, project_id |-> NoProject,
                target |-> NoUser, passes |-> FALSE]

\* removeMember's DELETE arrives: PostgreSQL (READ COMMITTED) evaluates the
\* policies of the caller against the rows committed so far.  The verdict
\* is kept while the statement and its transaction are completed.
removeBegin(x, actor, p, target) ==
    LET exists == p \in projects /\ members[p][target] # NoRole
    IN  /\ removals[x].pc = "idle"
        /\ removals' = [removals EXCEPT ![x] =
              [pc |-> "commit", user |-> actor, project_id |-> p, target |-> target,
               passes |-> /\ exists
                          /\ MembersSelectUsing(members, actor, p)
                          /\ MembersDeleteUsing(members, actor, p, target,
                                                members[p][target])]]
        /\ UNCHANGED <<memberSide, session, docSide, serverSide, editorSide, creates,
                       lastResult>>

\* The DELETE commits: the row goes when the policies let it through and no
\* other statement has removed it meanwhile (the policies are not evaluated
\* again; a concurrent statement on another row takes no lock on this one).
\* Then the handler's local state update.
removeCommit(x) ==
    LET rm == removals[x]
        p == rm.project_id
        deleted == rm.passes /\ p \in projects /\ members[p][rm.target] # NoRole
    IN  /\ rm.pc = "commit"
        /\ members' = IF deleted THEN [members EXCEPT ![p][rm.target] = NoRole]
                      ELSE members
        /\ currentProject' = IF rm.user = session
                             THEN LocalDropMember(currentProject, p, rm.target)
                             ELSE currentProject
        /\ removals' = [removals EXCEPT ![x] = IdleRemoval]
        /\ lastResult' = Result("removeMember", TRUE,
              IF ~deleted THEN "no_row"
              ELSE IF members[p][rm.target] = "owner" THEN "deleted_owner" ELSE "deleted")
        /\ UNCHANGED <<projects, session, projList, docSide, serverSide, editorSide,
                       creates>>

\* ------------------------------------------------------------- server state
InitServer ==
    /\ runs = [r \in RunIds |-> IdleRun]
    /\ storage = <<>>
    /\ publishes = <<>>
    /\ clock = 1
    /\ versions = <<>>
    /\ appends = [a \in AppendIds |-> IdleAppend]

\* No editor on the page, no request under way.
InitAsync ==
    /\ editor = NoEditor
    /\ saves = <<>>
    /\ creates = [c \in CreateIds |-> IdleCreate]
    /\ removals = [x \in RemovalIds |-> IdleRemoval]

\* ------------------------------------------------------------ memberships
InitMembers ==
    /\ projects = {}
    /\ members = [p \in Projects |-> NoMembers]
    /\ session = NoUser
    /\ projList = [p \in Projects |-> NoRole]
    /\ currentProject = NullProject
    /\ InitDocumentStore
    /\ InitServer
    /\ InitAsync
    /\ documents = <<>>
    /\ nextDocId = 1
    /\ lastResult = Result("init", TRUE, "init")

NextMembers ==
    \/ \E a \in Users, p \in TeamProjects : createProject(a, p)
    \/ \E a \in Users, p \in TeamProjects, t \in Users, r \in Roles : addMember(a, p, t, r)
    \/ \E a \in Users, p \in TeamProjects, t \in Users, r \in Roles : updateMemberRole(a, p, t, r)
    \/ \E a \in Users, p \in TeamProjects, t \in Users : removeMember(a, p, t)
    \/ \E a \in Users, p \in TeamProjects : leaveProject(a, p)

SpecMembers == InitMembers /\ [][NextMembers]_vars


\* -------------------------------------------------------------- documents
\* A standing team for the document runs: user p created project p, the
\* other users up to MaxProjects edit it, and of the remaining users every
\* second one views it.
StandingTeam == [p \in Projects |-> [u \in Users |->
                    IF u = p THEN "owner"
                    ELSE IF u <= MaxProjects THEN "editor"
                    ELSE IF (u + p) % 2 = 0 THEN "viewer" ELSE NoRole]]

InitTeam ==
    /\ projects = Projects
    /\ members = StandingTeam
    /\ projList = [p \in Projects |-> NoRole]
    /\ currentProject = NullProject
    /\ InitDocumentStore
    /\ InitServer
    /\ InitAsync
    /\ lastResult = Result("init", TRUE, "init")

NoDocuments == documents = <<>> /\ nextDocId = 1

\* Requests of any user against the document tables (no tracked browser).
InitDocs == InitTeam /\ NoDocuments /\ session = NoUser

NextDocs ==
    \/ \E a \in Users, p \in Projects, par \in DocIds \cup {NULL}, f \in BOOLEAN :
          createDocument(a, p, par, f)
    \/ \E a \in Users, d \in DocIds, par \in DocIds \cup {NULL}, o \in SortOrders :
          moveDocument(a, d, par, o)
    \/ \E a \in Users, d \in DocIds : deleteDocument(a, d)

SpecDocs == InitDocs /\ [][NextDocs]_vars

\* One browser, its user on the project pages.
InitBrowse == InitTeam /\ NoDocuments /\ session = 1

NextBrowse ==
    \/ \E p \in Projects : openProjectPage(p)
    \/ \E d \in DocIds : setCurrentDocument(d)
    \/ handleCreateDocument
    \/ handleCreateFolder

SpecBrowse == InitBrowse /\ [][NextBrowse]_vars

\* One browser whose user calls the document store, starting from the
\* store's initial state.
InitStore == InitTeam /\ NoDocuments /\ session = 1

NextStore ==
    \/ \E p \in Projects, par \in DocIds \cup {NULL}, f \in BOOLEAN :
          createDocument(session, p, par, f)
    \/ \E d \in DocIds, par \in DocIds \cup {NULL}, o \in SortOrders :
          moveDocument(session, d, par, o)
    \/ \E d \in DocIds : deleteDocument(session, d)

SpecStore == InitStore /\ [][NextStore]_vars

\* What New Document, New Folder, selecting the folder and New Document
\* leave in project 1 (every root-level row gets sort_order 0).
SeedDocuments ==
    (1 :> DocRow(1, 1, NULL, FALSE, FALSE, 0, "Untitled Document", "# New Document"))
    @@ (2 :> DocRow(2, 1, NULL, TRUE, FALSE, 0, "New Folder", ""))
    @@ (3 :> DocRow(3, 1, 2, FALSE, FALSE, 0, "Untitled Document", "# New Document"))

InitSeeded ==
    /\ InitTeam
    /\ documents = SeedDocuments
    /\ nextDocId = Cardinality(DOMAIN SeedDocuments) + 1
    /\ session = NoUser

\* Publish requests of any caller, interleaved with each other, with the
\* publication flag being set and cleared, and with time passing.
NextPublish ==
    \/ \E r \in RunIds, h \in BOOLEAN, t \in Users \cup {NoUser},
          p \in Projects \cup {NoProject} : publishRequest(r, h, t, p)
    \/ \E r \in RunIds, e \in BOOLEAN : checkMember(r, e)
    \/ \E r \in RunIds, e \in BOOLEAN : getProject(r, e)
    \/ \E r \in RunIds, e \in BOOLEAN : selectDocuments(r, e)
    \/ \E r \in RunIds, e \in BOOLEAN : buildBundle(r, e)
    \/ \E r \in RunIds, e \in BOOLEAN : uploadBundle(r, e)
    \/ \E r \in RunIds, e \in BOOLEAN : recordPublish(r, e)
    \/ tick
    \/ \E a \in Users, d \in DocIds, b \in BOOLEAN :
          updateDocument(a, d, [is_published |-> b])

SpecPublish == InitSeeded /\ [][NextPublish]_vars

\* Version appends of any user, interleaved.
NextVersions ==
    \/ \E a \in AppendIds, u \in Users, d \in DocIds : appendRead(a, u, d)
    \/ \E a \in AppendIds : appendInsert(a)

SpecVersions == InitSeeded /\ [][NextVersions]_vars

\* The browser of user 3, a viewer of project 1 and no member of project 2,
\* calling the document store; each project holds one document written by
\* its editors.
GuestDocuments ==
    (1 :> DocRow(1, 1, NULL, FALSE, FALSE, 0, "Untitled Document", "# New Document"))
    @@ (2 :> DocRow(2, 2, NULL, FALSE, TRUE, 0, "Untitled Document", "# New Document"))

DocumentUpdates ==
    {[title |-> "Untitled"], [content |-> ""], [is_published |-> TRUE]}

InitGuest ==
    /\ InitTeam
    /\ documents = GuestDocuments
    /\ nextDocId = Cardinality(DOMAIN GuestDocuments) + 1
    /\ session = MaxUsers

NextGuest ==
    \/ \E p \in Projects : openProjectPage(p)
    \/ \E p \in Projects, par \in DocIds \cup {NULL}, f \in BOOLEAN :
          createDocument(session, p, par, f)
    \/ \E d \in DocIds, u \in DocumentUpdates : updateDocument(session, d, u)
    \/ \E d \in DocIds, par \in DocIds \cup {NULL}, o \in SortOrders :
          moveDocument(session, d, par, o)
    \/ \E d \in DocIds : deleteDocument(session, d)
    \/ \E d \in DocIds : togglePublished(d)

SpecGuest == InitGuest /\ [][NextGuest]_vars

\* The browser of user 1, owner of project 1, on the project pages over
\* the seed documents, calling togglePublished.
InitEditor ==
    /\ InitTeam
    /\ documents = SeedDocuments
    /\ nextDocId = Cardinality(DOMAIN SeedDocuments) + 1
    /\ session = 1

NextEditor ==
    \/ \E p \in Projects : openProjectPage(p)
    \/ \E d \in DocIds : setCurrentDocument(d)
    \/ \E d \in DocIds : togglePublished(d)

SpecEditor == InitEditor /\ [][NextEditor]_vars

\* buildDocumentTree applied to any list of at most MaxDocs rows with
\* distinct ids, in any order, whose parent_id is null, the id of a listed
\* or unlisted row of DocIds (itself included), or an id that names no row.
DanglingId == MaxDocs + 1

TreeRows ==
    {DocRow(id, 1, par, FALSE, FALSE, o, "Untitled", "") :
        id \in DocIds, par \in DocIds \cup {NULL, DanglingId}, o \in 0..MaxTreeSort}

TreeInputs ==
    UNION {{l \in [1..n -> TreeRows] : \A i, j \in 1..n : i # j => l[i].id # l[j].id} :
              n \in 0..MaxDocs}

InitTree ==
    /\ InitTeam
    /\ NoDocuments
    /\ session = 1

\* set({ documents, documentTree: buildDocumentTree(documents) })
setDocuments(list) ==
    /\ lastResult.op = "init"
    /\ localDocs' = list
    /\ documentTree' = buildDocumentTree(list)
    /\ lastResult' = Result("buildDocumentTree", TRUE, "built")
    /\ UNCHANGED <<memberSide, session, docTables, openProject, currentDocument, serverSide, asyncSide>>

NextTree == \E list \in TreeInputs : setDocuments(list)

SpecTree == InitTree /\ [][NextTree]_vars

\* One publish run of any caller, interleaved with the publication flag
\* and the content of the documents being changed by the project's users.
SnapshotUpdates ==
    {[is_published |-> TRUE], [is_published |-> FALSE],
     [content |-> ""], [content |-> "# New Document"]}

NextSnapshot ==
    \/ \E h \in BOOLEAN, t \in Users \cup {NoUser}, p \in Projects \cup {NoProject} :
          publishRequest(1, h, t, p)
    \/ \E e \in BOOLEAN : checkMember(1, e)
    \/ \E e \in BOOLEAN : getProject(1, e)
    \/ \E e \in BOOLEAN : selectDocuments(1, e)
    \/ \E e \in BOOLEAN : buildBundle(1, e)
    \/ \E e \in BOOLEAN : uploadBundle(1, e)
    \/ \E e \in BOOLEAN : recordPublish(1, e)
    \/ \E a \in Users, d \in DocIds, u \in SnapshotUpdates : updateDocument(a, d, u)

SpecSnapshot == InitSeeded /\ [][NextSnapshot]_vars

\* One publish run of any caller over three root documents of project 1, two
\* of them with the same title, interleaved with the publication flags
\* being set and cleared and the documents being reordered.
SiteDocuments ==
    (1 :> DocRow(1, 1, NULL, FALSE, FALSE, 1, "Untitled Document", "# New Document"))
    @@ (2 :> DocRow(2, 1, NULL, FALSE, FALSE, 0, "Untitled Document", ""))
    @@ (3 :> DocRow(3, 1, NULL, FALSE, FALSE, 1, "Untitled", "# New Document"))

InitSite ==
    /\ InitTeam
    /\ documents = SiteDocuments
    /\ nextDocId = Cardinality(DOMAIN SiteDocuments) + 1
    /\ session = NoUser

NextSite ==
    \/ \E h \in BOOLEAN, t \in Users \cup {NoUser}, p \in Projects \cup {NoProject} :
          publishRequest(1, h, t, p)
    \/ \E e \in BOOLEAN : checkMember(1, e)
    \/ \E e \in BOOLEAN : getProject(1, e)
    \/ \E e \in BOOLEAN : selectDocuments(1, e)
    \/ \E e \in BOOLEAN : buildBundle(1, e)
    \/ \E e \in BOOLEAN : uploadBundle(1, e)
    \/ \E e \in BOOLEAN : recordPublish(1, e)
    \/ \E a \in Users, d \in DocIds, b \in BOOLEAN :
          updateDocument(a, d, [is_published |-> b])
    \/ \E a \in Users, d \in DocIds, o \in 0..MaxIndexSort :
          moveDocument(a, d, NULL, o)

SpecSite == InitSite /\ [][NextSite]_vars

\* One publish run of any caller while only the projects of TeamProjects
\* exist: the other ids of Projects name no projects row and, with it, no
\* project_members row (project_id ... ON DELETE CASCADE).
InitMissing ==
    /\ projects = TeamProjects
    /\ members = [p \in Projects |-> IF p \in TeamProjects THEN StandingTeam[p] ELSE NoMembers]
    /\ projList = [p \in Projects |-> NoRole]
    /\ currentProject = NullProject
    /\ InitDocumentStore
    /\ InitServer
    /\ InitAsync
    /\ lastResult = Result("init", TRUE, "init")
    /\ documents = SeedDocuments
    /\ nextDocId = Cardinality(DOMAIN SeedDocuments) + 1
    /\ session = NoUser

SpecMissing == InitMissing /\ [][NextSnapshot]_vars

\* The browser of user 1, owner of project 1, on the project page with two
\* documents of different title and content: selecting a document, typing
\* into the editor and its title field, the debounce timers firing and the
\* responses of the editor's saves arriving, in any order.
EditingDocuments ==
    (1 :> DocRow(1, 1, NULL, FALSE, FALSE, 0, "Untitled Document", "# New Document"))
    @@ (2 :> DocRow(2, 1, NULL, FALSE, FALSE, 0, "Untitled", ""))

TypedContents == {"", "# Draft"}
TypedTitles == {"", "Untitled"}

InitEditing ==
    /\ InitTeam
    /\ documents = EditingDocuments
    /\ nextDocId = Cardinality(DOMAIN EditingDocuments) + 1
    /\ session = 1

NextEditing ==
    \/ \E p \in TeamProjects : ~EditorStale /\ openProjectPage(p)
    \/ \E d \in DocIds : ~EditorStale /\ setCurrentDocument(d)
    \/ renderEditor
    \/ \E text \in TypedContents : typeContent(text)
    \/ \E text \in TypedTitles : typeTitle(text)
    \/ debounceContent
    \/ debounceTitle
    \/ saveCompletes

SpecEditing == InitEditing /\ [][NextEditing]_vars

\* createDocument calls of any users under existing documents, their two
\* requests interleaved, starting from one folder in project 1.
FolderDocuments == (1 :> DocRow(1, 1, NULL, TRUE, FALSE, 0, "New Folder", ""))

InitCreates ==
    /\ InitTeam
    /\ documents = FolderDocuments
    /\ nextDocId = Cardinality(DOMAIN FolderDocuments) + 1
    /\ session = NoUser

NextCreates ==
    \/ \E c \in CreateIds, a \in Users, p \in Projects, par \in DocIds, f \in BOOLEAN :
          createRead(c, a, p, par, f)
    \/ \E c \in CreateIds : createInsert(c)

SpecCreates == InitCreates /\ [][NextCreates]_vars

\* removeMember calls of any users on a project with two owners, their
\* DELETE statements overlapping, and members being added.
TwoOwners == [p \in Projects |-> [u \in Users |->
                 IF p \in TeamProjects /\ u <= 2 THEN "owner" ELSE NoRole]]

InitRemovals ==
    /\ projects = TeamProjects
    /\ members = TwoOwners
    /\ session = NoUser
    /\ projList = [p \in Projects |-> NoRole]
    /\ currentProject = NullProject
    /\ InitDocumentStore
    /\ InitServer
    /\ InitAsync
    /\ documents = <<>>
    /\ nextDocId = 1
    /\ lastResult = Result("init", TRUE, "init")

NextRemovals ==
    \/ \E x \in RemovalIds, a \in Users, p \in TeamProjects, t \in Users :
          removeBegin(x, a, p, t)
    \/ \E x \in RemovalIds : removeCommit(x)
    \/ \E a \in Users, p \in TeamProjects, t \in Users, r \in Roles : addMember(a, p, t, r)

SpecRemovals == InitRemovals /\ [][NextRemovals]_vars

\* The browser of user 1 calling every function of the document store that
\* writes documents and documentTree, on project 1.
DerivedUpdates == {[is_published |-> TRUE]}

NextDerived ==
    \/ \E p \in TeamProjects : openProjectPage(p)
    \/ \E p \in TeamProjects, par \in DocIds \cup {NULL, DanglingId} :
          createDocument(session, p, par, FALSE)
    \/ \E d \in DocIds, u \in DerivedUpdates : updateDocument(session, d, u)
    \/ \E d \in DocIds, par \in DocIds \cup {NULL, DanglingId}, o \in SortOrders :
          moveDocument(session, d, par, o)
    \/ \E d \in DocIds : deleteDocument(session, d)

SpecDerived == InitStore /\ [][NextDerived]_vars

\* ================================================================ claims
Owners(p) == {u \in Users : members[p][u] = "owner"}

\* C1: after any sequence of atomically applied createProject, addMember,
\* updateMemberRole, removeMember and leaveProject, every existing project
\* has at least one member whose role is owner.
C1_EveryProjectHasOwner == \A p \in projects : Owners(p) # {}

\* C1 witness: an owner has just been removed from a project (by another
\* owner) and the project is left with exactly one owner.
C1_Witness ==
    /\ lastResult.op = "removeMember" /\ lastResult.note = "deleted_owner"
    /\ \E p \in projects : Cardinality(Owners(p)) = 1

\* C2: no updateMemberRole call, by any actor and with any requested role,
\* changes the role of a member whose current role is owner.
C2_OwnerRoleNeverUpdated ==
    [][lastResult'.op = "updateMemberRole" =>
         \A p \in Projects, u \in Users :
            members[p][u] = "owner" => members'[p][u] = "owner"]_vars

\* C2 witness: updateMemberRole has been called on a member who is an owner
\* of a project that has a second owner (who may have been the caller).
C2_Witness ==
    /\ lastResult.op = "updateMemberRole" /\ lastResult.note = "target_owner"
    /\ \E p \in projects : Cardinality(Owners(p)) >= 2

\* The total order owner > editor > viewer.
RoleRank(r) == CASE r = "owner" -> 3 [] r = "editor" -> 2 [] r = "viewer" -> 1 [] OTHER -> 0

\* C3: has_project_access(project, user, minRole) is true iff the user has
\* a membership whose role is at least minRole in owner > editor > viewer;
\* for minRole = editor exactly for owner and editor; it is FALSE (a value,
\* not an error) for a viewer below minRole and for a user with no row.
C3_AccessIffRoleAtLeast ==
    \A p \in Projects, u \in Users \cup {NoUser}, m \in Roles :
        LET r == get_user_project_role(members, p, u)
        IN  /\ has_project_access(members, p, u, m) \in BOOLEAN
            /\ has_project_access(members, p, u, m)
                  <=> (r # NoRole /\ RoleRank(r) >= RoleRank(m))
            /\ has_project_access(members, p, u, "editor") <=> r \in {"owner", "editor"}

\* C3 witness: one project holds an owner, an editor and a viewer, and some
\* user has no membership in it.
C3_Witness ==
    \E p \in projects :
        /\ \A r \in Roles : \E u \in Users : members[p][u] = r
        /\ get_user_project_role(members, p, NoUser) = NoRole


\* ---- the document tree, as the claims speak of it
\* The documents reached from d by following parent_id upwards.
RECURSIVE AncestorsWithin(_, _, _)
AncestorsWithin(docs, d, k) ==
    IF k = 0 \/ d \notin DOMAIN docs \/ docs[d].parent_id = NULL THEN {}
    ELSE {docs[d].parent_id} \cup AncestorsWithin(docs, docs[d].parent_id, k - 1)

Ancestors(docs, d) == AncestorsWithin(docs, d, Cardinality(DOMAIN docs))

\* id and every document that has id among its ancestors.
Subtree(docs, id) == {id} \cup {d \in DOMAIN docs : id \in Ancestors(docs, d)}

Acyclic(docs) == \A d \in DOMAIN docs : d \notin Ancestors(docs, d)

MayEdit(a, id) ==
    id \in DOMAIN documents /\ get_user_project_role(members, documents[id].project_id, a)
                                  \in {"owner", "editor"}

\* C4: moveDocument(id, newParentId, newSortOrder) is rejected and leaves
\* every document unchanged when newParentId is id itself or a descendant
\* of id (so that the parent_id relation never contains a cycle).
C4_MoveIntoSubtreeRejected ==
    [][\A a \in Users, id \in DocIds, par \in DocIds, o \in SortOrders :
          (moveDocument(a, id, par, o) /\ MayEdit(a, id) /\ par \in Subtree(documents, id))
             => (documents' = documents /\ ~lastResult'.ok)]_vars

\* C5: deleteDocument(id), called by a user who may edit, removes exactly id
\* and all its transitive descendants and no other document, from the
\* persisted documents and from the store's list alike: the count after is
\* the count before minus the size of the subtree rooted at id.
C5_DeleteRemovesExactlySubtree ==
    [][\A id \in DocIds :
          (deleteDocument(session, id) /\ MayEdit(session, id))
             => /\ documents' = Without(documents, Subtree(documents, id))
                /\ Cardinality(DOMAIN documents') =
                      Cardinality(DOMAIN documents) - Cardinality(Subtree(documents, id))
                /\ id \in SeqIds(localDocs) =>
                      /\ SeqIds(localDocs') = SeqIds(localDocs) \ Subtree(LocalTable, id)
                      /\ Len(localDocs') =
                            Len(localDocs) - Cardinality(Subtree(LocalTable, id))]_vars

\* C6: in every state reached through createDocument and createFolder (the
\* default parent taken from currentDocument), every document with a
\* non-null parent_id has a parent whose project_id equals its own.
C6_ParentInSameProject ==
    \A d \in DOMAIN documents :
        documents[d].parent_id # NULL =>
            /\ documents[d].parent_id \in DOMAIN documents
            /\ documents[documents[d].parent_id].project_id = documents[d].project_id

\* C7: createDocument gives the new document sort_order = 1 + the maximum
\* sort_order among the existing documents of the same project and the same
\* parent (parent = null, the root level, included), and 0 without siblings.
C7_NewSortOrderIsMaxPlusOne ==
    [][(lastResult'.op = "createDocument" /\ lastResult'.ok) =>
          LET new == documents'[nextDocId]
              sib == {d \in DOMAIN documents :
                         /\ documents[d].project_id = new.project_id
                         /\ documents[d].parent_id = new.parent_id}
          IN  new.sort_order =
                 IF sib = {} THEN 0 ELSE 1 + Max({documents[d].sort_order : d \in sib})]_vars

\* ---- publish
\* C8: a publish run in which rendering or bundle assembly throws, the
\* upload fails or the Publish-record insert fails answers with a failure
\* and adds no Publish record; a run answers with success only when the
\* Publish record with the returned version token and id has been created.
C8_PublishAllOrNothing ==
    [][\A r \in RunIds :
          /\ (buildBundle(r, TRUE) \/ uploadBundle(r, TRUE) \/ recordPublish(r, TRUE))
                => /\ ~runs'[r].response.success
                   /\ runs'[r].response.status >= 500
                   /\ publishes' = publishes
          /\ (runs'[r].response.success /\ ~runs[r].response.success)
                => \E i \in 1..Len(publishes') :
                      /\ publishes'[i].id = runs'[r].response.publishId
                      /\ publishes'[i].project_id = runs'[r].projectId
                      /\ publishes'[i].version = runs'[r].response.version]_vars

NoPublishedDocument(p) ==
    ~\E d \in DOMAIN documents :
        documents[d].project_id = p /\ documents[d].is_published /\ ~documents[d].is_folder

\* C9: when the project has no document with is_published = true and
\* is_folder = false, the run's read of the published documents ends the
\* run with status 400 "No published documents found": nothing is uploaded,
\* no Publish record is created, and the finished run does nothing more.
C9_NothingToPublish ==
    [][\A r \in RunIds :
          /\ (selectDocuments(r, FALSE) /\ NoPublishedDocument(runs[r].projectId))
                => /\ runs'[r].pc = "done"
                   /\ runs'[r].response.status = 400
                   /\ runs'[r].response.error = "No published documents found"
                   /\ ~runs'[r].response.success
                   /\ storage' = storage /\ publishes' = publishes
          /\ runs[r].pc = "done" => runs'[r] = runs[r]]_vars

\* C9 witness: a run by an editor has ended with "No published documents
\* found" on a project that holds an unpublished document and a published
\* folder, and nothing is in the bucket or in publishes.
C9_Witness ==
    \E r \in RunIds :
        /\ runs[r].pc = "done" /\ runs[r].response.status = 400
        /\ runs[r].response.error = "No published documents found"
        /\ NoPublishedDocument(runs[r].projectId)
        /\ \E d, f \in DOMAIN documents :
              /\ documents[d].project_id = runs[r].projectId
              /\ documents[f].project_id = runs[r].projectId
              /\ ~documents[d].is_folder /\ ~documents[d].is_published
              /\ documents[f].is_folder /\ documents[f].is_published
        /\ storage = <<>> /\ publishes = <<>>

\* ---- version log
VersionNumbersOf(d) ==
    {i \in 1..Len(versions) : versions[i].document_id = d}

\* C10: for every document, the version numbers of its DocumentVersion
\* rows after N appends are exactly 1..N, without gap or repeat, also when
\* appends to the same document overlap.
C10_VersionNumbersDense ==
    \A d \in DocIds :
        LET rows == VersionNumbersOf(d)
        IN  /\ {versions[i].version_number : i \in rows} = 1..Cardinality(rows)
            /\ \A i, j \in rows : i # j => versions[i].version_number # versions[j].version_number

\* ---- authorization
DocumentOps ==
    {"createDocument", "updateDocument", "moveDocument", "deleteDocument", "togglePublished"}

EditsNothing(u) ==
    \A p \in Projects : get_user_project_role(members, p, u) \notin {"owner", "editor"}

\* C11: createDocument, updateDocument, moveDocument, deleteDocument and
\* togglePublished called by a user who is neither owner nor editor of any
\* project leave the persisted documents unchanged and report a failure.
C11_DocumentWritesNeedEditor ==
    [][(EditsNothing(session) /\ lastResult'.op \in DocumentOps)
          => (documents' = documents /\ ~lastResult'.ok)]_vars

\* C12: addMember, updateMemberRole and removeMember aimed at another
\* user's membership, by an actor whose role in the project is not owner
\* (editor, viewer or no member), leave every membership and role as it was.
C12_MembershipWritesNeedOwner ==
    [][\A a \in Users, p \in Projects, t \in Users, r \in Roles :
          (/\ t # a
           /\ get_user_project_role(members, p, a) # "owner"
           /\ (addMember(a, p, t, r) \/ updateMemberRole(a, p, t, r) \/ removeMember(a, p, t)))
             => members' = members]_vars

\* C12 witness: a non-owner's addMember has just been denied in a project
\* that holds an owner, an editor and a viewer.
C12_Witness ==
    /\ lastResult.op = "addMember" /\ lastResult.note = "denied" /\ ~lastResult.ok
    /\ \E p \in projects : \A r \in Roles : \E u \in Users : members[p][u] = r

\* C13: leaveProject removes the actor's own membership when the actor is
\* an editor or a viewer; when the actor is an owner the membership remains
\* and the request is rejected.
C13_LeaveProjectByRole ==
    [][\A a \in Users, p \in Projects :
          (leaveProject(a, p) /\ p \in projects)
             => /\ members[p][a] \in {"editor", "viewer"} => members'[p][a] = NoRole
                /\ members[p][a] = "owner"
                      => (members'[p][a] = "owner" /\ ~lastResult'.ok)]_vars

\* ---- tree integrity
\* C14: createDocument with a parent_id that names a document of another
\* project, or a document that is not a folder, fails and creates no
\* document.
C14_InvalidParentRejected ==
    [][\A a \in Users, p \in Projects, par \in DocIds, f \in BOOLEAN :
          (/\ createDocument(a, p, par, f)
           /\ par \in DOMAIN documents
           /\ (documents[par].project_id # p \/ ~documents[par].is_folder))
             => (documents' = documents /\ ~lastResult'.ok)]_vars

\* C15: togglePublished of a listed folder leaves its is_published flag as
\* it was, and no folder is ever published; togglePublished of a listed
\* non-folder by its editor flips is_published.
C15_FoldersNeverPublished ==
    [][\A d \in DocIds :
          (togglePublished(d) /\ d \in DOMAIN documents /\ d \in SeqIds(localDocs))
             => /\ documents'[d].is_published =
                      IF documents[d].is_folder THEN documents[d].is_published
                      ELSE ~documents[d].is_published
                /\ \A f \in DOMAIN documents' :
                      documents'[f].is_folder => ~documents'[f].is_published]_vars

\* ---- buildDocumentTree
\* The nodes of the forest: those reached from the roots through children.
ForestIds ==
    ReachableFrom(documentTree.children,
                  {documentTree.roots[i] : i \in 1..Len(documentTree.roots)})

\* How often node n occurs in the forest: as a root, or in the children of
\* a node of the forest.
Occurrences(n) ==
    Cardinality({i \in 1..Len(documentTree.roots) : documentTree.roots[i] = n})
    + Cardinality({<<m, i>> \in ForestIds \X (1..MaxDocs) :
                      i <= Len(documentTree.children[m]) /\ documentTree.children[m][i] = n})

\* C16: for every list of documents with distinct ids, whatever their
\* parent_id values, the forest built from it contains every listed
\* document exactly once and no other node.
C16_ForestHoldsEveryDocumentOnce ==
    lastResult.op = "buildDocumentTree"
       => /\ ForestIds = SeqIds(localDocs)
          /\ \A n \in SeqIds(localDocs) : Occurrences(n) = 1

SortKey(n) == LocalTable[n].sort_order

InOrder(seq) ==
    \A i, j \in 1..Len(seq) :
        i < j => \/ SortKey(seq[i]) < SortKey(seq[j])
                 \/ (SortKey(seq[i]) = SortKey(seq[j]) /\ seq[i] < seq[j])

\* C17: in the forest the roots and every children list are in ascending
\* sort_order, documents of equal sort_order in creation (id) order, so
\* that the forest does not depend on the order of the list.
C17_SiblingsInKeyOrder ==
    lastResult.op = "buildDocumentTree"
       => /\ InOrder(documentTree.roots)
          /\ \A n \in ForestIds : InOrder(documentTree.children[n])

\* ---- publish authorization
\* C18: a publish request whose caller is a viewer of the project or no
\* member of it ends at the membership check with status 403, uploads
\* nothing and creates no Publish record; every Publish record created has
\* published_by equal to the user of the run that created it.
C18_PublishNeedsEditor ==
    [][\A r \in RunIds :
          /\ (/\ checkMember(r, TRUE) \/ checkMember(r, FALSE)
              /\ get_user_project_role(members, runs[r].projectId, runs[r].user)
                    \notin {"owner", "editor"})
                => /\ runs'[r].pc = "done"
                   /\ runs'[r].response.status = 403
                   /\ ~runs'[r].response.success
                   /\ storage' = storage /\ publishes' = publishes
          /\ ((recordPublish(r, TRUE) \/ recordPublish(r, FALSE))
              /\ Len(publishes') > Len(publishes))
                => /\ publishes'[Len(publishes')].published_by = runs[r].user
                   /\ get_user_project_role(members, runs[r].projectId, runs[r].user)
                         \in {"owner", "editor"}]_vars

\* C18 witness: a viewer's request and a non-member's request have both
\* ended with status 403, and nothing is in the bucket or in publishes.
C18_Witness ==
    /\ \E r \in RunIds :
          /\ runs[r].pc = "done" /\ runs[r].response.status = 403
          /\ get_user_project_role(members, runs[r].projectId, runs[r].user) = "viewer"
    /\ \E r \in RunIds :
          /\ runs[r].pc = "done" /\ runs[r].response.status = 403
          /\ runs[r].user # NoUser
          /\ get_user_project_role(members, runs[r].projectId, runs[r].user) = NoRole
    /\ storage = <<>> /\ publishes = <<>>

\* ---- publish snapshot
Built(run) == run.pc \in {"upload", "record"} \/ (run.pc = "done" /\ run.response.success)

\* C19: a publish run reads the published documents once; from then on its
\* selection does not change, and the pages, the index page, the metadata
\* document list and the reported count all come from that selection, also
\* when the flag or the content of a document changes after the read: a
\* document is in the list, counted and rendered from the selection, or in
\* none of them.
C19_PublishUsesOneSnapshot ==
    [][\A r \in RunIds :
          LET old == runs[r]
              run == runs'[r]
              snap == run.docs
              ids == {snap[i].id : i \in 1..Len(snap)}
          IN  /\ (old.pc \notin {"idle", "member", "project", "select"})
                    => (run.docs = old.docs)
              /\ Built(old) => run.bundle = old.bundle
              /\ Built(run) =>
                    /\ Len(run.bundle.nav) = Len(snap)
                    /\ \A i \in 1..Len(snap) :
                          /\ run.bundle.nav[i].id = snap[i].id
                          /\ run.bundle.nav[i].title = snap[i].title
                          /\ run.bundle.nav[i].slug \in DOMAIN run.bundle.pages
                    /\ \A sl \in DOMAIN run.bundle.pages :
                          \E i \in 1..Len(snap) : run.bundle.pages[sl] = Page(snap[i])
                    /\ run.bundle.index = Page(snap[1])
              /\ (run.pc = "done" /\ run.response.success)
                    => run.response.documentCount = Len(snap)
              /\ ((recordPublish(r, TRUE) \/ recordPublish(r, FALSE))
                  /\ Len(publishes') > Len(publishes))
                    => /\ publishes'[Len(publishes')].document_count = Len(old.docs)
                       /\ publishes'[Len(publishes')].documents = old.bundle.nav]_vars

\* C19 witness: a run has answered success with a selection that is no
\* longer what table documents holds: a selected document has since been
\* unpublished, another has been edited, and nothing selected is left.
C19_Witness ==
    \E r \in RunIds :
        LET snap == runs[r].docs
        IN  /\ runs[r].pc = "done" /\ runs[r].response.success
            /\ Len(snap) >= 2 /\ publishes # <<>>
            /\ \E i \in 1..Len(snap) : ~documents[snap[i].id].is_published
            /\ \E i \in 1..Len(snap) : documents[snap[i].id].content # snap[i].content
            /\ SelectPublished(documents, members, runs[r].user, runs[r].projectId) # snap

\* C20: any two Publish records of one project have different version
\* tokens and different storage paths, and no run uploads its bundle to a
\* path that already holds a bundle, also when runs overlap.
C20_PublishVersionsDistinct ==
    [][/\ \A r \in RunIds :
             uploadBundle(r, FALSE)
                => StoragePath(runs[r].projectId, runs[r].version) \notin DOMAIN storage
       /\ \A i, j \in 1..Len(publishes') :
             (i # j /\ publishes'[i].project_id = publishes'[j].project_id)
                => /\ publishes'[i].version # publishes'[j].version
                   /\ publishes'[i].storage_path # publishes'[j].storage_path]_vars

\* C21: in every successful publish run the selected documents are in
\* ascending sort_order, the index page holds the content of the first of
\* them (one of least sort_order), and the document list of the uploaded
\* bundle and of the recorded metadata names them in that same order.
Ascending(docs) ==
    \A i, j \in 1..Len(docs) : i < j => docs[i].sort_order <= docs[j].sort_order

C21_IndexIsFirstBySortOrder ==
    \A r \in RunIds :
        LET run == runs[r]
            path == StoragePath(run.projectId, run.version)
        IN  (run.pc = "done" /\ run.response.success) =>
              /\ Ascending(run.docs)
              /\ path \in DOMAIN storage
              /\ storage[path].index.content = run.docs[1].content
              /\ \A i \in 1..Len(run.docs) :
                    run.docs[1].sort_order <= run.docs[i].sort_order
              /\ [i \in 1..Len(run.docs) |-> run.docs[i].id]
                    = [i \in 1..Len(storage[path].nav) |-> storage[path].nav[i].id]
              /\ run.response.publishId # NULL =>
                    [i \in 1..Len(run.docs) |-> run.docs[i].id]
                      = [i \in 1..Len(publishes[run.response.publishId].documents) |->
                           publishes[run.response.publishId].documents[i].id]

\* C21 witness: a successful, recorded run over several documents the first
\* of which is neither the one of least id nor of the sort_order of the last.
C21_Witness ==
    \E r \in RunIds :
        /\ runs[r].pc = "done" /\ runs[r].response.success
        /\ runs[r].response.publishId # NULL
        /\ Len(runs[r].docs) > 1
        /\ \E i \in 2..Len(runs[r].docs) : runs[r].docs[i].id < runs[r].docs[1].id
        /\ runs[r].docs[1].sort_order < runs[r].docs[Len(runs[r].docs)].sort_order

\* C22: a publish request of an authenticated user for a project id that
\* names no project ends with status 404, and nothing is uploaded and no
\* Publish record is created for that id.
C22_MissingProjectIs404 ==
    \A r \in RunIds :
        LET run == runs[r]
        IN  (run.pc = "done" /\ run.user # NoUser /\ run.projectId \notin projects) =>
              /\ run.response.status = 404
              /\ \A path \in DOMAIN storage : path.project # run.projectId
              /\ \A i \in 1..Len(publishes) : publishes[i].project_id # run.projectId

\* C23: a render that switches the living editor from one document to
\* another starts no updateDocument call for the new document with a
\* content or a title other than the one loaded from that document: the
\* text and title left in the editor by the previous document are not
\* written to the new one.
C23_AutoSaveWritesOwnText ==
    [][(/\ renderEditor
        /\ editor.mounted
        /\ EditorShown(currentDocument)
        /\ editor.document.id # currentDocument.id)
       => \A i \in (Len(saves) + 1)..Len(saves') :
             LET call == saves'[i]
             IN  call.id = currentDocument.id =>
                   /\ "content" \in DOMAIN call.updates =>
                         call.updates.content = currentDocument.content
                   /\ "title" \in DOMAIN call.updates =>
                         call.updates.title = currentDocument.title]_vars

\* C24: with an editor open on a document its user may edit and has typed
\* into, once no debounce timer is pending and every save of the editor has
\* been answered, the persisted content of the document is the last text
\* the user typed into it.
EditorQuiet ==
    /\ editor.mounted /\ ~EditorStale /\ canEdit
    /\ editor.timers = <<>>
    /\ saves = <<>>

C24_LastTypedTextPersisted ==
    (EditorQuiet /\ editor.typed.any /\ editor.document.id \in DOMAIN documents)
        => documents[editor.document.id].content = editor.typed.text

\* C25: when the tracked browser's updateDocument, moveDocument or
\* deleteDocument addresses an existing document whose row the update and
\* delete policies hide from its user (the write reaches zero rows and
\* raises no error), the call reports a failure and the store's documents
\* and currentDocument stay as they were.
C25_ZeroRowWriteIsNoSuccess ==
    [][\A d \in DocIds, u \in DocumentUpdates, par \in DocIds \cup {NULL}, o \in SortOrders :
          (/\ d \in DOMAIN documents
           /\ ~has_project_access(members, documents[d].project_id, session, "editor")
           /\ \/ updateDocument(session, d, u)
              \/ moveDocument(session, d, par, o)
              \/ deleteDocument(session, d))
             => /\ ~lastResult'.ok
                /\ localDocs' = localDocs
                /\ currentDocument' = currentDocument]_vars

\* C26: in every state reached through createDocument, moveDocument and
\* deleteDocument, the recursion of collectIds returns for every document
\* of the store's list (no document is among its own descendants there).
C26_CollectIdsTerminates ==
    \A id \in SeqIds(localDocs) : ~CollectOverflows(localDocs, id)

C28_SiblingOrdersDistinct ==
    \A d, e \in DOMAIN documents :
        (/\ d # e
         /\ documents[d].project_id = documents[e].project_id
         /\ documents[d].parent_id = documents[e].parent_id)
          => documents[d].sort_order # documents[e].sort_order

\* C29: while the owners of a project issue removeMember on each other's
\* memberships at the same time, the project keeps a member of role owner.
C29_ConcurrentRemovalsKeepOwner ==
    \A p \in projects : \E u \in Users : members[p][u] = "owner"

\* C30: in every state of the document store documentTree is
\* buildDocumentTree of the store's documents, every store function writes
\* the two together, and a call that fails leaves both as they were.
C30_TreeIsDerivedFromDocuments ==
    /\ documentTree = buildDocumentTree(localDocs)
    /\ [][/\ documentTree' = buildDocumentTree(localDocs')
          /\ ~lastResult'.ok => (localDocs' = localDocs /\ documentTree' = documentTree)]_vars

\* C30 witness: a moveDocument of the tracked browser has just succeeded
\* and the tree of its three listed documents has a node with a child.
C30_Witness ==
    /\ lastResult.op = "moveDocument" /\ lastResult.ok
    /\ Len(localDocs) = MaxDocs
    /\ \E n \in DOMAIN documentTree.children : documentTree.children[n] # <<>>
    /\ documentTree.roots # <<>>
====
